---- MODULE Spec2Model ----
(***************************************************************************)
(* State-machine model of HubConnection (signalr-node-ts/src/              *)
(* SignalRClient.ts): negotiate, WebSocket transport, handshake,           *)
(* invocation tracking, automatic reconnection and keep-alive.             *)
(*                                                                         *)
(* Every step is one run-to-completion turn of the JavaScript event loop:  *)
(* a public call (start, stop, invoke), the continuation of an await       *)
(* (negotiate response, reconnect delay), a socket event handler or a      *)
(* timer callback.                                                         *)
(***************************************************************************)
EXTENDS Integers, Sequences, FiniteSets, TLC

\* ---------------------------------------------------------------------
\* Bounds of the model
\* ---------------------------------------------------------------------
MaxStarts == 2        \* calls of start()
MaxTasks == 3         \* async executions (start() calls + reconnect loops)
MaxSockets == 3       \* WebSocket objects ever created
MaxDelays == 2        \* longest configured reconnect delay sequence
MaxInvocations == 2   \* accepted invoke() calls
MaxAcks == 2          \* `{}` fragments a server sends on one socket
MaxConnId == 1        \* distinct connection ids a negotiate response carries
InvMaxTasks == 2      \* async executions in the invocation-tracking specification
InvMaxSockets == 2    \* WebSockets in the invocation-tracking specification
MaxPings == 1         \* Ping frames the keep-alive interval sends on one socket
MaxListeners == 3     \* entries of the listener registry
MaxRaw == 3           \* pieces (texts and separators) of one socket message
FewListeners == 1     \* registry entries where the registry is not the subject
MaxCorrelations == 2  \* requests the trigger registers for a deferred response
MaxResponders == 3    \* executions of the RespondToPrivateWorkflow node
MaxCallers == 6       \* calls of ensureStarted
MaxClientStarts == 3  \* calls of client.start() by ensureStarted
MaxWaiters == 3       \* calls of waitForNextMessage

\* ---------------------------------------------------------------------
\* State
\* ---------------------------------------------------------------------
VARIABLES
    isStopped,           \* HubConnection.isStopped
    socket,              \* HubConnection.socket: 0 = null, else index into ws
    connectionId,        \* HubConnection.connectionId: 0 = null
    invocationId,        \* HubConnection.invocationId
    pendingInvocations,  \* HubConnection.pendingInvocations: id -> index into invs
    keepAliveInterval,   \* 0 = no interval armed, s = armed by the handshake of socket s
    reconnectDelays,     \* HubConnection.reconnectDelays
    skipNegotiation,     \* options.skipNegotiation
    ws,                  \* every WebSocket created, with the closure of its handlers
                         \* and the frames sent on it
    tasks,               \* every async execution: start() calls and reconnect loops
    invs,                \* every promise returned by an accepted invoke()
    listeners,           \* HubConnection.listeners: lowercased method name -> callbacks
    received,            \* the last raw message handled by SocketMessage: its socket,
                         \* its text, the fragments handled and the listener calls made
    events,              \* lifecycle callbacks fired, and rejected promise
                         \* returned, by the last step
    nStarts,             \* number of start() calls
    userStopped,         \* stop() was called and start() has not been called since
    usage,               \* how the caller has used start()/stop() so far (see Start, Stop)
    exhausted,           \* a reconnect loop ran out of delays and start() was not called since
    seqAttempts,         \* connectInternal(true) calls since the last loss of an established socket
    reconnectingFired,   \* onreconnecting firings since the last onreconnected / onclose
    options,             \* what the connection was built with: baseUrl, apiKey, group,
                         \* the token of accessTokenFactory, webSocketQueryParams
    urls,                \* the negotiate URL and the WebSocket URL that the last run of
                         \* connectInternal built, and the negotiate result it got
    registry,            \* PrivateWorkflowResponseRegistry: correlationId -> entry
    responders,          \* every execution of RespondToPrivateWorkflow.execute
    hubResponses,        \* CompletePrivateWorkflow invocations sent, per correlationId
    started,             \* PrivateWorkflowTrigger.trigger: `started`
    startingPromise,     \* `startingPromise`: 0 = null, else index into clientStarts
    clientStarts,        \* every call of client.start() made by ensureStarted
    callers,             \* every call of ensureStarted
    build,               \* which SignalRPrivateWorkflowClient runs: the TypeScript
                         \* source or the compiled JavaScript of library/
    onceResolvers,       \* SignalRPrivateWorkflowClient.onceResolvers: indexes into waiters
    waiters              \* every promise returned by waitForNextMessage

vars == <<isStopped, socket, connectionId, invocationId, pendingInvocations,
          keepAliveInterval, reconnectDelays, skipNegotiation, ws, tasks, invs,
          listeners, received, events, nStarts, userStopped, usage, exhausted, seqAttempts,
          reconnectingFired, options, urls, registry, responders, hubResponses, started,
          startingPromise, clientStarts, callers, build, onceResolvers, waiters>>

connVars == <<isStopped, socket, connectionId, ws, tasks>>
invVars == <<invocationId, pendingInvocations, invs>>
cfgVars == <<reconnectDelays, skipNegotiation>>
msgVars == <<listeners, received>>
ghostVars == <<nStarts, userStopped, usage, exhausted, seqAttempts, reconnectingFired>>
urlVars == <<options, urls>>
respondVars == <<registry, responders, hubResponses>>
starterVars == <<started, startingPromise, clientStarts, callers>>
waitVars == <<build, onceResolvers, waiters>>
nodeVars == <<urlVars, respondVars, starterVars, waitVars>>
hubVars == <<connVars, invVars, keepAliveInterval, cfgVars, msgVars, events, ghostVars>>

\* ---------------------------------------------------------------------
\* Values
\* ---------------------------------------------------------------------
\* WebSocket.readyState; "CLOSING" also stands for a failed socket whose close
\* event is not yet delivered, "CLOSED" for one whose close event was handled
\* (the code only ever tests readyState against OPEN)
ReadyStates == {"CONNECTING", "OPEN", "CLOSING", "CLOSED"}

\* error field of a Completion frame: absent, the empty string, a message
ErrorValues == {"absent", "empty", "message"}

\* the delay sequence of the spec's example, [0, 100, 200, ...]
DelayAt(i) == 100 * (i - 1)

DelaySeq(n) == [i \in 1..n |-> DelayAt(i)]

EmptyMap == [i \in {} |-> 0]

\* `new Map()` of listeners
NoListeners == [k \in {} |-> <<>>]

\* no message handled yet
NoMessage == [seq |-> 0, sock |-> 0, raw |-> <<>>, handled |-> <<>>]

Task(kind, pc, idx, sock) == [kind |-> kind, pc |-> pc, idx |-> idx, sock |-> sock]

Put(seq, i, rec) == IF i = Len(seq) + 1 THEN Append(seq, rec) ELSE [seq EXCEPT ![i] = rec]

\* ---------------------------------------------------------------------
\* Initial state: a HubConnection as left by HubConnectionBuilder.build()
\* ---------------------------------------------------------------------
\* text is a sequence of tokens; a connection built with a plain base URL,
\* without accessTokenFactory and webSocketQueryParams
PlainOptions ==
    [baseUrl |-> <<"http", "://hub/path">>, apiKey |-> "key", group |-> "",
     accessToken |-> "", webSocketQueryParams |-> <<>>]

NoUrls ==
    [negotiate |-> <<>>, ws |-> <<>>,
     neg |-> [url |-> <<>>, accessToken |-> "", connectionId |-> ""]]

\* the n8n nodes before the trigger is activated
InitNode ==
    /\ urls = NoUrls
    /\ registry = EmptyMap
    /\ responders = <<>>
    /\ hubResponses = EmptyMap
    /\ started = FALSE
    /\ startingPromise = 0
    /\ clientStarts = <<>>
    /\ callers = <<>>
    /\ onceResolvers = <<>>
    /\ waiters = <<>>

InitHub ==
    /\ isStopped = TRUE
    /\ socket = 0
    /\ connectionId = 0
    /\ invocationId = 0
    /\ pendingInvocations = EmptyMap
    /\ keepAliveInterval = 0
    /\ reconnectDelays \in {DelaySeq(n) : n \in 0..MaxDelays}
    /\ skipNegotiation \in BOOLEAN
    /\ ws = <<>>
    /\ tasks = <<>>
    /\ invs = <<>>
    /\ listeners = NoListeners
    /\ received = NoMessage
    /\ events = <<>>
    /\ nStarts = 0
    /\ userStopped = FALSE
    /\ usage = "single"
    /\ exhausted = FALSE
    /\ seqAttempts = 0
    /\ reconnectingFired = 0

Init ==
    /\ InitHub
    /\ InitNode
    /\ options = PlainOptions
    /\ build = "ts"

\* ---------------------------------------------------------------------
\* Helpers translated from the private methods
\* ---------------------------------------------------------------------
\* truthiness test `if (data.error)` of handleRawMessage
ErrorIsTruthy(err) == err = "message"

\* outcome of a Completion frame for a pending invocation
CompletionOutcome(err) == IF ErrorIsTruthy(err) THEN "rejected" ELSE "resolved"

NextInvocationIdReused(n) == 1

\* `this.invocationId++`
NextInvocationId(n) == n + 1

\* calling the stored resolve/reject wrapper: clearTimeout(tm), then settle
\* (a promise keeps its first settlement; settles counts the calls)
Settle(rec, outcome) ==
    [rec EXCEPT !.state = IF @ = "pending" THEN outcome ELSE @,
                !.settles = @ + 1,
                !.timer = FALSE]

\* the promise and timer created by one accepted invoke()
NewInvocation(id, s) ==
    [id |-> id, state |-> "pending", settles |-> 0, removes |-> 0,
     timer |-> TRUE, sock |-> s, completion |-> "none"]

\* indexes of the promises the pending map currently holds
Held(pend) == {pend[i] : i \in DOMAIN pend}

LookupAny(pend, id) == pend[CHOOSE i \in DOMAIN pend : \A j \in DOMAIN pend : i <= j]

\* `pendingInvocations.get(data.invocationId)`
Lookup(pend, id) == pend[id]

MapDeleteNone(pend, id) == pend

\* `pendingInvocations.delete(id)`
MapDelete(pend, id) == [i \in DOMAIN pend \ {id} |-> pend[i]]

\* `pendingInvocations.set(id, entry)`
MapSet(pend, id, c) == [i \in DOMAIN pend \cup {id} |-> IF i = id THEN c ELSE pend[i]]

CleanupRejectNone(iv, pend) == iv

\* cleanup(): `pendingInvocations.forEach(p => p.reject(new Error('Connection closed')))`
CleanupReject(iv, pend) ==
    [c \in DOMAIN iv |->
        IF c \in Held(pend)
        THEN [Settle(iv[c], "closed") EXCEPT !.removes = @ + 1]
        ELSE iv[c]]

CleanupClearKeeps(pend) == pend

\* cleanup(): `pendingInvocations.clear()`
CleanupClear(pend) == EmptyMap

\* cleanup(): `clearInterval(this.keepAliveInterval)`
CleanupInterval(k) == 0

CleanupListenersCleared(l) == NoListeners

\* cleanup() does not touch `this.listeners`
CleanupListeners(l) == l

Cleanup ==
    /\ keepAliveInterval' = CleanupInterval(keepAliveInterval)
    /\ listeners' = CleanupListeners(listeners)
    /\ invs' = CleanupReject(invs, pendingInvocations)
    /\ pendingInvocations' = CleanupClear(pendingInvocations)
    /\ UNCHANGED invocationId

\* a frame handed to WebSocket.send: its kind and the invocationId it
\* carries (0 = none)
Frame(type, id) == [type |-> type, id |-> id]

\* onopen: `ws.send(JSON.stringify({ protocol: 'json', version: 1 }) + '\x1e')`
HandshakeFrames == <<Frame("handshake", 0)>>

InvocationFramesTwice(id) == <<Frame("invocation", id), Frame("invocation", id)>>

\* invoke(): `this.socket?.send(JSON.stringify(packet) + '\x1e')`
InvocationFrames(id) == <<Frame("invocation", id)>>

\* keep-alive callback: `this.socket.send(`{"type":6}\x1e`)`
PingFrames == <<Frame("ping", 0)>>

NewSocket(t, isRec) ==
    [readyState |-> "CONNECTING", isReconnect |-> isRec, task |-> t,
     errorDue |-> FALSE, handshakes |-> 0, sent |-> <<>>]

\* `new WebSocket(wsUrl); this.socket = ws;` inside the promise of connectInternal
CreateSocket(base, t, kind, idx) ==
    /\ Len(ws) < MaxSockets
    /\ ws' = Append(ws, NewSocket(t, kind = "reconnect"))
    /\ socket' = Len(ws) + 1
    /\ tasks' = Put(base, t, Task(kind, "connecting", idx, Len(ws) + 1))

\* connectInternal up to its first suspension point (options.accessTokenFactory
\* is not set, as in SignalRClient: the first await is the negotiate request)
ConnectInternal(base, t, kind, idx) ==
    IF skipNegotiation
    THEN CreateSocket(base, t, kind, idx)
    ELSE /\ tasks' = Put(base, t, Task(kind, "negotiating", idx, 0))
         /\ UNCHANGED <<ws, socket>>

\* the promise of connectInternal that the handlers of socket s settle is
\* still awaited by the task that created the socket
Awaited(s) ==
    /\ tasks[ws[s].task].pc = "connecting"
    /\ tasks[ws[s].task].sock = s

\* what a step lets its caller observe: a lifecycle callback list being
\* fired, or invoke() returning an already rejected promise
Fire(name, arg) == <<[name |-> name, arg |-> arg]>>

Fired(ev, name) == \E i \in DOMAIN ev : ev[i].name = name

\* ---------------------------------------------------------------------
\* Public API
\* ---------------------------------------------------------------------
\* What the caller has done so far:
\*   "single"   only the one initial start();
\*   "restarts" stop() calls, and start() calls made while the connection
\*              was stopped;
\*   "overlap"  start() was called on a connection that was not stopped.
UsageAfterStart(u, stopped, n) ==
    IF ~stopped THEN "overlap" ELSE IF n = 0 \/ u = "overlap" THEN u ELSE "restarts"

UsageAfterStop(u) == IF u = "single" THEN "restarts" ELSE u

\* start(): isStopped = false; await connectInternal()
Start ==
    /\ nStarts < MaxStarts
    /\ Len(tasks) < MaxTasks
    /\ isStopped' = FALSE
    /\ ConnectInternal(tasks, Len(tasks) + 1, "start", 0)
    /\ events' = <<>>
    /\ nStarts' = nStarts + 1
    /\ userStopped' = FALSE
    /\ usage' = UsageAfterStart(usage, isStopped, nStarts)
    /\ exhausted' = FALSE
    /\ UNCHANGED <<connectionId, invVars, keepAliveInterval, cfgVars, nodeVars, msgVars,
                   seqAttempts, reconnectingFired>>

\* WebSocket.close() as called by stop()
CloseCall(w) ==
    IF w.readyState = "CONNECTING"
    THEN [w EXCEPT !.readyState = "CLOSING", !.errorDue = TRUE]
    ELSE IF w.readyState = "OPEN"
         THEN [w EXCEPT !.readyState = "CLOSING"]
         ELSE w

StopSkipsCleanup ==
    /\ isStopped' = TRUE
    /\ UNCHANGED <<invVars, keepAliveInterval, listeners>>
    /\ IF socket # 0
       THEN /\ ws' = [ws EXCEPT ![socket] = CloseCall(@)]
            /\ socket' = 0
       ELSE UNCHANGED <<ws, socket>>
    /\ events' = <<>>
    /\ userStopped' = TRUE
    /\ usage' = UsageAfterStop(usage)
    /\ UNCHANGED <<connectionId, tasks, cfgVars, nodeVars, received, nStarts, exhausted,
                   seqAttempts, reconnectingFired>>

\* stop(): isStopped = true; cleanup(); close and forget the socket
Stop ==
    /\ isStopped' = TRUE
    /\ Cleanup
    /\ IF socket # 0
       THEN /\ ws' = [ws EXCEPT ![socket] = CloseCall(@)]
            /\ socket' = 0
       ELSE UNCHANGED <<ws, socket>>
    /\ events' = <<>>
    /\ userStopped' = TRUE
    /\ usage' = UsageAfterStop(usage)
    /\ UNCHANGED <<connectionId, tasks, cfgVars, nodeVars, received, nStarts, exhausted,
                   seqAttempts, reconnectingFired>>

SocketNotOpenNullOnly == socket = 0

\* `!this.socket || this.socket.readyState !== WebSocket.OPEN`
SocketNotOpen == socket = 0 \/ ws[socket].readyState # "OPEN"

\* invoke(): without an open socket return a rejected promise; otherwise
\* allocate the id, register the pending entry with its 30 s timer and
\* send the Invocation frame
Invoke ==
    IF SocketNotOpen
    THEN /\ events' = Fire("invokeRejected", 0)
         /\ UNCHANGED <<connVars, invVars, keepAliveInterval, cfgVars, nodeVars, msgVars, ghostVars>>
    ELSE /\ Len(invs) < MaxInvocations
         /\ invocationId' = NextInvocationId(invocationId)
         /\ invs' = Append(invs, NewInvocation(invocationId', socket))
         /\ pendingInvocations' = MapSet(pendingInvocations, invocationId', Len(invs) + 1)
         /\ ws' = [ws EXCEPT ![socket].sent = @ \o InvocationFrames(invocationId')]
         /\ events' = <<>>
         /\ UNCHANGED <<isStopped, socket, connectionId, tasks, keepAliveInterval,
                        cfgVars, nodeVars, msgVars, ghostVars>>

\* ---------------------------------------------------------------------
\* connectInternal: the negotiate request returns
\* ---------------------------------------------------------------------
\* `this.connectionId = neg.connectionId` only in the local scenario
NegotiatedId(cur, hasUrl, cid) == IF ~hasUrl /\ cid # 0 THEN cid ELSE cur

NegotiateOk(t, hasUrl, cid) ==
    /\ tasks[t].pc = "negotiating"
    /\ connectionId' = NegotiatedId(connectionId, hasUrl, cid)
    /\ CreateSocket(tasks, t, tasks[t].kind, tasks[t].idx)
    /\ events' = <<>>
    /\ UNCHANGED <<isStopped, invVars, keepAliveInterval, cfgVars, nodeVars, msgVars, ghostVars>>

\* ---------------------------------------------------------------------
\* handleAutomaticReconnect
\* ---------------------------------------------------------------------
\* head of iteration i of `for (const delay of this.reconnectDelays)`, or
\* the code after the loop when the sequence is used up
LoopStep(base, t, i) ==
    IF i > Len(reconnectDelays)
    THEN /\ isStopped' = TRUE
         /\ tasks' = Put(base, t, Task("reconnect", "exhausted", i, 0))
         /\ events' = Fire("close", 1)
         /\ exhausted' = TRUE
         /\ reconnectingFired' = 0
    ELSE /\ tasks' = Put(base, t, Task("reconnect",
                            IF isStopped THEN "aborted" ELSE "sleeping", i, 0))
         /\ events' = <<>>
         /\ UNCHANGED <<isStopped, exhausted, reconnectingFired>>

NextIterationSame(i) == i

\* the `catch` of the loop body falls through to the next `delay`
NextIteration(i) == i + 1

\* the negotiate request fails: connectInternal throws
NegotiateFail(t) ==
    /\ tasks[t].pc = "negotiating"
    /\ IF tasks[t].kind = "start"
       THEN /\ tasks' = [tasks EXCEPT ![t].pc = "rejected"]
            /\ events' = <<>>
            /\ UNCHANGED <<isStopped, exhausted, reconnectingFired>>
       ELSE LoopStep(tasks, t, NextIteration(tasks[t].idx))
    /\ UNCHANGED <<socket, connectionId, ws, invVars, keepAliveInterval, cfgVars, nodeVars, msgVars,
                   nStarts, userStopped, usage, seqAttempts>>

\* `await new Promise(r => setTimeout(r, delay))` returns; connectInternal(true)
DelayElapsed(t) ==
    /\ tasks[t].pc = "sleeping"
    /\ ConnectInternal(tasks, t, "reconnect", tasks[t].idx)
    /\ seqAttempts' = seqAttempts + 1
    /\ events' = <<>>
    /\ UNCHANGED <<isStopped, connectionId, invVars, keepAliveInterval, cfgVars, nodeVars, msgVars,
                   nStarts, userStopped, usage, exhausted, reconnectingFired>>

\* ---------------------------------------------------------------------
\* Socket event handlers installed by connectInternal
\* ---------------------------------------------------------------------
SocketOpenResolves(s) ==
    /\ ws[s].readyState = "CONNECTING"
    /\ ws' = [ws EXCEPT ![s].readyState = "OPEN", ![s].sent = @ \o HandshakeFrames]
    /\ events' = <<>>
    /\ tasks' = IF Awaited(s) THEN [tasks EXCEPT ![ws[s].task].pc = "resolved"] ELSE tasks
    /\ UNCHANGED <<isStopped, socket, connectionId, invVars,
                   keepAliveInterval, cfgVars, nodeVars, msgVars, ghostVars>>

\* ws.onopen: the handshake request is sent
SocketOpen(s) ==
    /\ ws[s].readyState = "CONNECTING"
    /\ ws' = [ws EXCEPT ![s].readyState = "OPEN", ![s].sent = @ \o HandshakeFrames]
    /\ events' = <<>>
    /\ UNCHANGED <<isStopped, socket, connectionId, tasks, invVars,
                   keepAliveInterval, cfgVars, nodeVars, msgVars, ghostVars>>

\* ws.onerror: reject the connect promise only on a first connection
ErrorRejects(isRec, cid) == ~isRec /\ cid = 0

SocketError(s) ==
    /\ \/ ws[s].readyState \in {"CONNECTING", "OPEN"}
       \/ ws[s].readyState = "CLOSING" /\ ws[s].errorDue
    /\ ws' = [ws EXCEPT ![s].readyState = "CLOSING", ![s].errorDue = FALSE]
    /\ tasks' = IF ErrorRejects(ws[s].isReconnect, connectionId) /\ Awaited(s)
                THEN [tasks EXCEPT ![ws[s].task].pc = "rejected"]
                ELSE tasks
    /\ events' = <<>>
    /\ UNCHANGED <<isStopped, socket, connectionId, invVars, keepAliveInterval,
                   cfgVars, nodeVars, msgVars, ghostVars>>

ReconnectDisabledNever == FALSE

\* handleAutomaticReconnect: `!this.reconnectDelays.length`
ReconnectDisabled == Len(reconnectDelays) = 0

\* ws.onclose: cleanup(), then close callbacks or handleAutomaticReconnect()
SocketClose(s) ==
    /\ \/ ws[s].readyState = "OPEN"
       \/ ws[s].readyState = "CLOSING" /\ ~ws[s].errorDue
    /\ ws' = [ws EXCEPT ![s].readyState = "CLOSED"]
    /\ Cleanup
    /\ IF isStopped
       THEN /\ events' = Fire("close", 0)
            /\ reconnectingFired' = 0
            /\ UNCHANGED tasks
       ELSE IF ReconnectDisabled
            THEN /\ events' = Fire("close", 1)
                 /\ reconnectingFired' = 0
                 /\ UNCHANGED tasks
            ELSE /\ Len(tasks) < MaxTasks
                 /\ events' = Fire("reconnecting", 1)
                 /\ reconnectingFired' = reconnectingFired + 1
                 /\ tasks' = Append(tasks, Task("reconnect", "sleeping", 1, 0))
    /\ seqAttempts' = IF ~isStopped /\ ws[s].handshakes > 0 THEN 0 ELSE seqAttempts
    /\ UNCHANGED <<isStopped, socket, connectionId, cfgVars, nodeVars, received, nStarts,
                   userStopped, usage, exhausted>>

\* ws.onmessage with the fragment `{}`: the onHandshake callback
SocketHandshake(s) ==
    /\ ws[s].readyState = "OPEN"
    /\ ws[s].handshakes < MaxAcks
    /\ ws' = [ws EXCEPT ![s].handshakes = @ + 1]
    /\ keepAliveInterval' = s
    /\ IF ws[s].isReconnect
       THEN /\ events' = Fire("reconnected", connectionId)
            /\ reconnectingFired' = 0
       ELSE /\ events' = <<>>
            /\ UNCHANGED reconnectingFired
    /\ tasks' = IF Awaited(s)
                THEN [tasks EXCEPT ![ws[s].task].pc =
                        IF ws[s].isReconnect THEN "returned" ELSE "resolved"]
                ELSE tasks
    /\ UNCHANGED <<isStopped, socket, connectionId, invVars, cfgVars, nodeVars, msgVars, nStarts,
                   userStopped, usage, exhausted, seqAttempts>>

\* ws.onmessage with a Completion frame (type 3)
Completion(s, id, err) ==
    /\ ws[s].readyState = "OPEN"
    /\ IF id \in DOMAIN pendingInvocations
       THEN /\ invs' = [invs EXCEPT ![Lookup(pendingInvocations, id)] =
                          [Settle(@, CompletionOutcome(err)) EXCEPT
                              !.removes = @ + 1, !.completion = err]]
            /\ pendingInvocations' = MapDelete(pendingInvocations, id)
       ELSE UNCHANGED <<invs, pendingInvocations>>
    /\ events' = <<>>
    /\ UNCHANGED <<connVars, invocationId, keepAliveInterval, cfgVars, nodeVars, msgVars, ghostVars>>

\* the setTimeout callback of invoke() for the promise with index c
Timeout(c) ==
    /\ invs[c].timer
    /\ IF invs[c].id \in DOMAIN pendingInvocations
       THEN LET h == pendingInvocations[invs[c].id]
                rej == [invs EXCEPT ![c].state = IF @ = "pending" THEN "timeout" ELSE @,
                                    ![c].settles = @ + 1,
                                    ![c].timer = FALSE]
            IN  /\ invs' = [rej EXCEPT ![h].removes = @ + 1]
                /\ pendingInvocations' = MapDelete(pendingInvocations, invs[c].id)
       ELSE /\ invs' = [invs EXCEPT ![c].timer = FALSE]
            /\ UNCHANGED pendingInvocations
    /\ events' = <<>>
    /\ UNCHANGED <<connVars, invocationId, keepAliveInterval, cfgVars, nodeVars, msgVars, ghostVars>>

\* ---------------------------------------------------------------------
\* Listener registry: on(), off()
\* ---------------------------------------------------------------------
\* method names are sequences of characters
Lower(ch) == CASE ch = "F" -> "f" [] ch = "O" -> "o" [] ch = "B" -> "b" [] OTHER -> ch

\* `methodName.toLowerCase()`
ToLowerCase(name) == [i \in DOMAIN name |-> Lower(name[i])]

\* the names the caller and the server use
MethodNames == {<<"f", "o">>, <<"F", "o">>, <<"F", "O">>, <<"b">>}

\* the caller's callbacks; cb3 throws whenever it is called
Callbacks == {"cb1", "cb2", "cb3"}

Throws(cb) == cb = "cb3"

\* number of entries of the registry
RECURSIVE SumLen(_, _)
SumLen(l, keys) ==
    IF keys = {} THEN 0
    ELSE LET k == CHOOSE x \in keys : TRUE
         IN  Len(l[k]) + SumLen(l, keys \ {k})

RegistrySize(l) == SumLen(l, DOMAIN l)

\* on(): create the list under the lowercased name if absent, push the callback
ListenersOn(l, name, cb) ==
    LET key == ToLowerCase(name)
        had == IF key \in DOMAIN l THEN l[key] ELSE <<>>
    IN  [k \in DOMAIN l \cup {key} |-> IF k = key THEN Append(had, cb) ELSE l[k]]

FilterFirst(handlers, cb) ==
    IF \A i \in DOMAIN handlers : handlers[i] # cb THEN handlers
    ELSE LET i == CHOOSE j \in DOMAIN handlers :
                     handlers[j] = cb /\ \A k \in 1..(j - 1) : handlers[k] # cb
         IN  SubSeq(handlers, 1, i - 1) \o SubSeq(handlers, i + 1, Len(handlers))

\* `handlers.filter(h => h !== method)`
Filter(handlers, cb) == SelectSeq(handlers, LAMBDA h : h # cb)

\* off(): replace the list under the lowercased name, if there is one
ListenersOff(l, name, cb) ==
    LET key == ToLowerCase(name)
    IN  IF key \in DOMAIN l THEN [l EXCEPT ![key] = Filter(@, cb)] ELSE l

On(name, cb) ==
    /\ RegistrySize(listeners) < MaxListeners
    /\ listeners' = ListenersOn(listeners, name, cb)
    /\ events' = <<>>
    /\ UNCHANGED <<connVars, invVars, keepAliveInterval, cfgVars, nodeVars, received, ghostVars>>

Off(name, cb) ==
    /\ listeners' = ListenersOff(listeners, name, cb)
    /\ events' = <<>>
    /\ UNCHANGED <<connVars, invVars, keepAliveInterval, cfgVars, nodeVars, received, ghostVars>>

\* ---------------------------------------------------------------------
\* handleRawMessage
\* ---------------------------------------------------------------------
\* A raw message is a sequence of pieces of text: the record separator, the
\* text `{}`, the JSON text of a frame, or text that is not JSON.  The text
\* between two separators is a fragment; pieces that follow each other
\* without a separator form one fragment, which is not JSON.
Piece(kind, type, target, args, id, err) ==
    [kind |-> kind, type |-> type, target |-> target, arguments |-> args,
     invocationId |-> id, error |-> err]

RS == Piece("sep", 0, <<>>, <<>>, 0, "absent")

AckText == Piece("ack", 0, <<>>, <<>>, 0, "absent")

InvocationText(target, args) == Piece("json", 1, target, args, 0, "absent")

CompletionText(id, err) == Piece("json", 3, <<>>, <<>>, id, err)

PingText == Piece("json", 6, <<>>, <<>>, 0, "absent")

\* Invocation frames a server sends
InvocationTexts ==
    {InvocationText(<<"F", "O">>, <<1, 2>>),
     InvocationText(<<"f", "o">>, <<3>>),
     InvocationText(<<"b">>, <<>>)}

\* messages made of one Invocation frame
SingleFrames == {<<p>> : p \in InvocationTexts}

\* one of them
OneFrame == {<<InvocationText(<<"F", "O">>, <<1, 2>>)>>}

\* the pieces of multi-fragment messages
Pieces ==
    {RS, AckText, PingText, CompletionText(1, "absent"),
     InvocationText(<<"F", "O">>, <<1, 2>>)}

\* a frame of a type the client does not know (7 is Close in the protocol)
CloseText == Piece("json", 7, <<>>, <<>>, 0, "absent")

\* the pieces of messages with fragments the client drops
DropPieces == {RS, AckText, CloseText, CompletionText(1, "absent")}

DropMessages == UNION {[1..n -> DropPieces] : n \in 0..MaxRaw}

RawMessages == UNION {[1..n -> Pieces] : n \in 0..MaxRaw}

SplitAtFirst(raw) ==
    IF \A i \in DOMAIN raw : raw[i] # RS THEN <<raw>>
    ELSE LET i == CHOOSE j \in DOMAIN raw : raw[j] = RS /\ \A k \in 1..(j - 1) : raw[k] # RS
         IN  <<SubSeq(raw, 1, i - 1), SubSeq(raw, i + 1, Len(raw))>>

\* `raw.split('\x1e')`
RECURSIVE Split(_)
Split(raw) ==
    IF \A i \in DOMAIN raw : raw[i] # RS THEN <<raw>>
    ELSE LET i == CHOOSE j \in DOMAIN raw : raw[j] = RS /\ \A k \in 1..(j - 1) : raw[k] # RS
         IN  <<SubSeq(raw, 1, i - 1)>> \o Split(SubSeq(raw, i + 1, Len(raw)))

\* `msg === '{}'`
IsHandshakeAck(msg) == msg = <<AckText>>

ParsesAnything(msg) == TRUE

\* JSON.parse(msg) succeeds
Parses(msg) == Len(msg) = 1 /\ msg[1].kind = "json"

\* `handlers.forEach(h => h(...))`: a callback that throws ends the forEach
CallUntilThrow(handlers) ==
    IF \A i \in DOMAIN handlers : ~Throws(handlers[i]) THEN handlers
    ELSE LET i == CHOOSE j \in DOMAIN handlers :
                     Throws(handlers[j]) /\ \A k \in 1..(j - 1) : ~Throws(handlers[k])
         IN  SubSeq(handlers, 1, i)

\* the listener calls an Invocation frame causes
Dispatch(l, data) ==
    LET key == ToLowerCase(data.target)
        handlers == IF key \in DOMAIN l THEN l[key] ELSE <<>>
        called == CallUntilThrow(handlers)
    IN  [i \in DOMAIN called |-> [cb |-> called[i], args |-> data.arguments]]

\* The part of the state handleRawMessage works on, threaded through the
\* fragments of one message
MessageState ==
    [ws |-> ws, tasks |-> tasks, keepAliveInterval |-> keepAliveInterval,
     reconnectingFired |-> reconnectingFired, invs |-> invs,
     pendingInvocations |-> pendingInvocations, events |-> <<>>, handled |-> <<>>]

Handled(st, msg, calls) ==
    [st EXCEPT !.handled = Append(@, [frame |-> msg, calls |-> calls])]

\* the onHandshake callback of connectInternal for socket s
OnHandshake(st, s) ==
    LET t == st.ws[s].task
        awaited == st.tasks[t].pc = "connecting" /\ st.tasks[t].sock = s
        rec == st.ws[s].isReconnect
    IN  [st EXCEPT
            !.ws[s].handshakes = @ + 1,
            !.keepAliveInterval = s,
            !.events = IF rec THEN @ \o Fire("reconnected", connectionId) ELSE @,
            !.reconnectingFired = IF rec THEN 0 ELSE @,
            !.tasks = IF awaited
                      THEN [@ EXCEPT ![t].pc = IF rec THEN "returned" ELSE "resolved"]
                      ELSE @]

\* `data.type === 3`
OnCompletion(st, data) ==
    LET id == data.invocationId
    IN  IF id \in DOMAIN st.pendingInvocations
        THEN [st EXCEPT
                !.invs[Lookup(st.pendingInvocations, id)] =
                    [Settle(@, CompletionOutcome(data.error)) EXCEPT
                        !.removes = @ + 1, !.completion = data.error],
                !.pendingInvocations = MapDelete(@, id)]
        ELSE st

\* one iteration of `for (const msg of messages)`
HandleFragment(st, s, msg) ==
    IF Len(msg) = 0 THEN st
    ELSE IF IsHandshakeAck(msg) THEN Handled(OnHandshake(st, s), msg, <<>>)
    ELSE IF ~Parses(msg) THEN Handled(st, msg, <<>>)
    ELSE IF msg[1].type = 1 THEN Handled(st, msg, Dispatch(listeners, msg[1]))
    ELSE IF msg[1].type = 3 THEN Handled(OnCompletion(st, msg[1]), msg, <<>>)
    ELSE Handled(st, msg, <<>>)

RECURSIVE HandleFragments(_, _, _)
HandleFragments(st, s, messages) ==
    IF messages = <<>> THEN st
    ELSE HandleFragments(HandleFragment(st, s, Head(messages)), s, Tail(messages))

\* `{}` fragments of a raw message
AcksIn(raw) ==
    LET messages == Split(raw)
    IN  Cardinality({i \in DOMAIN messages : IsHandshakeAck(messages[i])})

\* ws.onmessage of socket s with any raw message
SocketMessage(s, raw) ==
    /\ ws[s].readyState = "OPEN"
    /\ ws[s].handshakes + AcksIn(raw) <= MaxAcks
    /\ LET st == HandleFragments(MessageState, s, Split(raw))
       IN  /\ ws' = st.ws
           /\ tasks' = st.tasks
           /\ keepAliveInterval' = st.keepAliveInterval
           /\ reconnectingFired' = st.reconnectingFired
           /\ invs' = st.invs
           /\ pendingInvocations' = st.pendingInvocations
           /\ events' = st.events
           /\ received' = [seq |-> 1 - received.seq, sock |-> s, raw |-> raw,
                           handled |-> st.handled]
    /\ UNCHANGED <<isStopped, socket, connectionId, invocationId, cfgVars, nodeVars, listeners,
                   nStarts, userStopped, usage, exhausted, seqAttempts>>

\* Ping frames sent on socket s
PingsSent(s) == Cardinality({i \in DOMAIN ws[s].sent : ws[s].sent[i].type = "ping"})

\* the setInterval callback of startKeepAlive: ping the current socket if
\* it is open
KeepAliveTick ==
    /\ keepAliveInterval # 0
    /\ IF socket # 0 /\ ws[socket].readyState = "OPEN"
       THEN /\ PingsSent(socket) < MaxPings
            /\ ws' = [ws EXCEPT ![socket].sent = @ \o PingFrames]
       ELSE UNCHANGED ws
    /\ events' = <<>>
    /\ UNCHANGED <<isStopped, socket, connectionId, tasks, invVars,
                   keepAliveInterval, cfgVars, nodeVars, msgVars, ghostVars>>

\* ---------------------------------------------------------------------
\* connectInternal: the negotiate URL and the WebSocket URL
\* ---------------------------------------------------------------------
\* `encodeURIComponent(text)`
EncodeURIComponent(text) ==
    CASE text = "t+k" -> "t%2Bk"
      [] text = "n/t" -> "n%2Ft"
      [] text = "g 1" -> "g%201"
      [] OTHER -> text

\* base URLs a connection is built with
BaseUrls ==
    {<<"http", "://hub/path">>, <<"http", "s://hub/path">>, <<"http", "://hub/path", "?", "x=1">>}

\* tokens accessTokenFactory returns ("" when there is no factory or it throws)
CallerTokens == {"", "t+k"}

\* options.webSocketQueryParams, in the order of Object.entries
QueryParams == {<<>>, <<<<"group", "g 1">>>>, <<<<"group", "g 1">>, <<"v", "2">>>>}

Options ==
    [baseUrl : BaseUrls, apiKey : {"key"}, group : {"", "grp"},
     accessToken : CallerTokens, webSocketQueryParams : QueryParams]

\* bodies of successful negotiate responses ("" and <<>>: field absent)
NegotiateResults ==
    [url : {<<>>, <<"http", "s://azure/client">>, <<"http", "s://azure/client", "?", "hub=h">>},
     accessToken : {"", "n/t"},
     connectionId : {"", "id1"}]

\* `url.indexOf('?') === -1 ? '?' : '&'`
Symbol(url) == IF \E i \in DOMAIN url : url[i] = "?" THEN "&" ELSE "?"

\* `url.replace(/^http/, 'ws')`
ReplaceHttp(url) == IF url # <<>> /\ url[1] = "http" THEN <<"ws">> \o Tail(url) ELSE url

\* line 151-154: the negotiate request
NegotiateUrl(opts) ==
    opts.baseUrl \o <<"/negotiate", "?", "apiKey", "=", EncodeURIComponent(opts.apiKey)>>
        \o (IF opts.group # ""
            THEN <<"&", "group", "=", EncodeURIComponent(opts.group)>>
            ELSE <<>>)

\* lines 140, 191-198: finalUrl
FinalUrl(opts, skip, neg) ==
    IF skip THEN opts.baseUrl
    ELSE IF neg.url # <<>> THEN neg.url
    ELSE IF neg.connectionId # ""
         THEN opts.baseUrl \o <<Symbol(opts.baseUrl), "id", "=", neg.connectionId>>
         ELSE opts.baseUrl

CallerToken(opts, skip, neg) == opts.accessToken

\* lines 141-146, 193: accessToken
AccessToken(opts, skip, neg) ==
    IF ~skip /\ neg.url # <<>> /\ neg.accessToken # "" THEN neg.accessToken
    ELSE opts.accessToken

\* lines 211-214
WithToken(url, token) ==
    IF token # ""
    THEN url \o <<Symbol(url), "access_token", "=", EncodeURIComponent(token)>>
    ELSE url

\* lines 217-222
RECURSIVE WithParams(_, _)
WithParams(url, params) ==
    IF params = <<>> THEN url
    ELSE WithParams(url \o <<Symbol(url), Head(params)[1], "=",
                             EncodeURIComponent(Head(params)[2])>>,
                    Tail(params))

WsUrl(opts, skip, neg) ==
    WithParams(WithToken(ReplaceHttp(FinalUrl(opts, skip, neg)),
                         AccessToken(opts, skip, neg)),
               opts.webSocketQueryParams)

\* connectInternal from its start to `new WebSocket(wsUrl)`, the negotiate
\* request answered with neg (no request with skipNegotiation)
ConnectUrl(neg) ==
    /\ skipNegotiation => neg = NoUrls.neg
    /\ urls' = [negotiate |-> IF skipNegotiation THEN <<>> ELSE NegotiateUrl(options),
                ws |-> WsUrl(options, skipNegotiation, neg),
                neg |-> neg]
    /\ UNCHANGED <<hubVars, options, respondVars, starterVars, waitVars>>

\* ---------------------------------------------------------------------
\* PrivateWorkflowResponseRegistry, the trigger's deferred responses and
\* the RespondToPrivateWorkflow node
\* ---------------------------------------------------------------------
\* `crypto.randomUUID()`: an id not issued before
NewCorrelationId == Cardinality(DOMAIN hubResponses) + 1

\* registerResponseEntry: an existing entry of the id is dropped, then set
RegisterResponseEntry(reg, correlationId, entry) ==
    [k \in DOMAIN reg \cup {correlationId} |->
        IF k = correlationId THEN entry ELSE reg[k]]

\* removeResponseEntry: clearTimeout and delete
RemoveResponseEntry(reg, correlationId) ==
    [k \in DOMAIN reg \ {correlationId} |-> reg[k]]

\* onExecute of the trigger in mode respondToPrivateWorkflow: emit the
\* payload with a new correlationId, arm the 120 s timer, register the entry;
\* no response is sent to the hub
OnExecuteDeferred ==
    /\ NewCorrelationId <= MaxCorrelations
    /\ registry' = RegisterResponseEntry(registry, NewCorrelationId,
                        [requestId |-> NewCorrelationId, timeout |-> TRUE])
    /\ hubResponses' = [k \in DOMAIN hubResponses \cup {NewCorrelationId} |->
                           IF k = NewCorrelationId THEN 0 ELSE hubResponses[k]]
    /\ UNCHANGED <<hubVars, urlVars, responders, starterVars, waitVars>>

\* the callback of the entry's setTimeout
RegistryTimeout(correlationId) ==
    /\ correlationId \in DOMAIN registry
    /\ registry[correlationId].timeout
    /\ registry' = RemoveResponseEntry(registry, correlationId)
    /\ UNCHANGED <<hubVars, urlVars, responders, hubResponses, starterVars, waitVars>>

EntryAlways(reg, correlationId) == TRUE

\* `PrivateWorkflowResponseRegistry.get(correlationId)` found an entry
HasEntry(reg, correlationId) == correlationId \in DOMAIN reg

\* RespondToPrivateWorkflow.execute up to `await entry.client.sendResponseToHub`:
\* without entry it returns; else sendResponseToHub invokes
\* CompletePrivateWorkflow if the client has a connection (sent) and the
\* execution waits for the invocation to settle
RespondExecute(correlationId, sent) ==
    /\ Len(responders) < MaxResponders
    /\ correlationId \in DOMAIN hubResponses
    /\ IF HasEntry(registry, correlationId)
       THEN /\ responders' = Append(responders,
                                [correlationId |-> correlationId, pc |-> "sending"])
            /\ hubResponses' = [hubResponses EXCEPT ![correlationId] =
                                    IF sent THEN @ + 1 ELSE @]
       ELSE /\ ~sent
            /\ responders' = Append(responders,
                                [correlationId |-> correlationId, pc |-> "returned"])
            /\ UNCHANGED hubResponses
    /\ UNCHANGED <<hubVars, urlVars, registry, starterVars, waitVars>>

\* the rest of execute: clearTimeout(entry.timeout), delete the entry
RespondResume(e) ==
    /\ responders[e].pc = "sending"
    /\ responders' = [responders EXCEPT ![e].pc = "returned"]
    /\ registry' = RemoveResponseEntry(registry, responders[e].correlationId)
    /\ UNCHANGED <<hubVars, urlVars, hubResponses, starterVars, waitVars>>

\* ---------------------------------------------------------------------
\* PrivateWorkflowTrigger.trigger: ensureStarted and closeFunction
\* ---------------------------------------------------------------------
NeedsStartAlways == TRUE

\* `if (!startingPromise)`
NeedsStart == startingPromise = 0

\* a call of ensureStarted up to its await
EnsureStarted ==
    /\ Len(callers) < MaxCallers
    /\ IF started
       THEN /\ callers' = Append(callers, [pc |-> "returned", promise |-> 0])
            /\ UNCHANGED <<startingPromise, clientStarts>>
       ELSE IF NeedsStart
            THEN /\ Len(clientStarts) < MaxClientStarts
                 /\ clientStarts' = Append(clientStarts, "inflight")
                 /\ startingPromise' = Len(clientStarts) + 1
                 /\ callers' = Append(callers, [pc |-> "awaiting",
                                                promise |-> Len(clientStarts) + 1])
            ELSE /\ callers' = Append(callers, [pc |-> "awaiting",
                                                promise |-> startingPromise])
                 /\ UNCHANGED <<startingPromise, clientStarts>>
    /\ UNCHANGED <<hubVars, urlVars, respondVars, started, waitVars>>

\* the callers awaiting promise k resume
Resume(k, pc) ==
    [c \in DOMAIN callers |->
        IF callers[c].pc = "awaiting" /\ callers[c].promise = k
        THEN [callers[c] EXCEPT !.pc = pc]
        ELSE callers[c]]

\* client.start() number k resolves: started = true; startingPromise = null
ClientStartResolves(k) ==
    /\ clientStarts[k] = "inflight"
    /\ clientStarts' = [clientStarts EXCEPT ![k] = "resolved"]
    /\ started' = TRUE
    /\ startingPromise' = 0
    /\ callers' = Resume(k, "returned")
    /\ UNCHANGED <<hubVars, urlVars, respondVars, waitVars>>

\* client.start() number k rejects: the catch sets startingPromise = null
\* and rethrows
ClientStartRejects(k) ==
    /\ clientStarts[k] = "inflight"
    /\ clientStarts' = [clientStarts EXCEPT ![k] = "rejected"]
    /\ startingPromise' = 0
    /\ callers' = Resume(k, "rejected")
    /\ UNCHANGED <<hubVars, urlVars, respondVars, started, waitVars>>

\* closeFunction after `await client.stop()` has returned
CloseFunction ==
    /\ started' = FALSE
    /\ UNCHANGED <<hubVars, urlVars, respondVars, startingPromise, clientStarts, callers,
                   waitVars>>

\* ---------------------------------------------------------------------
\* SignalRPrivateWorkflowClient: waitForNextMessage and handleExecute
\* ---------------------------------------------------------------------
\* waitForNextMessage(timeoutMs): a promise with its `done` flag; finish is
\* pushed to onceResolvers; the timer is armed if timeoutMs > 0.
\* passed: a request was handled while the promise was unsettled and did
\* not settle it
WaitForNextMessage(hasTimeout) ==
    /\ Len(waiters) < MaxWaiters
    /\ waiters' = Append(waiters, [done |-> FALSE, state |-> "pending", settles |-> 0,
                                   timer |-> hasTimeout, passed |-> FALSE])
    /\ onceResolvers' = Append(onceResolvers, Len(waiters) + 1)
    /\ UNCHANGED <<hubVars, urlVars, respondVars, starterVars, build>>

\* `if (!done) { done = true; resolve() / reject() }`
Finish(w, outcome) ==
    IF w.done THEN w
    ELSE [w EXCEPT !.done = TRUE, !.settles = @ + 1,
                   !.state = IF @ = "pending" THEN outcome ELSE @]

\* the setTimeout callback of waiter w
WaitTimeout(w) ==
    /\ waiters[w].timer
    /\ waiters' = [waiters EXCEPT ![w] = [Finish(@, "rejected") EXCEPT !.timer = FALSE]]
    /\ UNCHANGED <<hubVars, urlVars, respondVars, starterVars, build, onceResolvers>>

\* the waiters the end of handleExecute wakes: the compiled JavaScript
\* shifts one resolver off onceResolvers and calls it; the TypeScript source
\* has these lines commented out
Woken ==
    IF build = "js" /\ onceResolvers # <<>> THEN {Head(onceResolvers)} ELSE {}

\* handleExecute after its last await: the request has been handled
HandleExecute ==
    /\ waiters' = [w \in DOMAIN waiters |->
                      LET after == IF w \in Woken THEN Finish(waiters[w], "resolved")
                                   ELSE waiters[w]
                      IN  [after EXCEPT !.passed = @ \/ after.state = "pending"]]
    /\ onceResolvers' = IF build = "js" /\ onceResolvers # <<>>
                        THEN Tail(onceResolvers) ELSE onceResolvers
    /\ UNCHANGED <<hubVars, urlVars, respondVars, starterVars, build>>

\* ---------------------------------------------------------------------
\* Specification
\* ---------------------------------------------------------------------
\* connection lifecycle: public start/stop, negotiate, reconnect loop, socket events
Lifecycle ==
    \/ Start
    \/ Stop
    \/ \E t \in DOMAIN tasks, hasUrl \in BOOLEAN, cid \in 0..MaxConnId :
            NegotiateOk(t, hasUrl, cid)
    \/ \E t \in DOMAIN tasks : NegotiateFail(t)
    \/ \E t \in DOMAIN tasks : DelayElapsed(t)
    \/ \E s \in DOMAIN ws : SocketOpen(s)
    \/ \E s \in DOMAIN ws : SocketError(s)
    \/ \E s \in DOMAIN ws : SocketClose(s)
    \/ \E s \in DOMAIN ws : SocketHandshake(s)

\* invocation tracking: invoke(), Completion frames, the 30 s timers
Invocations ==
    \/ Invoke
    \/ \E s \in DOMAIN ws, id \in 1..MaxInvocations, err \in ErrorValues :
            Completion(s, id, err)
    \/ \E c \in DOMAIN invs : Timeout(c)

Next ==
    \/ Lifecycle
    \/ Invocations
    \/ KeepAliveTick
    \/ \E name \in MethodNames, cb \in Callbacks : On(name, cb)
    \/ \E name \in MethodNames, cb \in Callbacks : Off(name, cb)
    \/ \E s \in DOMAIN ws, raw \in RawMessages \cup SingleFrames : SocketMessage(s, raw)
    \/ \E neg \in NegotiateResults : ConnectUrl(neg)
    \/ OnExecuteDeferred
    \/ \E correlationId \in 1..MaxCorrelations : RegistryTimeout(correlationId)
    \/ \E correlationId \in 1..MaxCorrelations, sent \in BOOLEAN :
            RespondExecute(correlationId, sent)
    \/ \E e \in DOMAIN responders : RespondResume(e)
    \/ EnsureStarted
    \/ \E k \in DOMAIN clientStarts : ClientStartResolves(k)
    \/ \E k \in DOMAIN clientStarts : ClientStartRejects(k)
    \/ CloseFunction
    \/ \E hasTimeout \in BOOLEAN : WaitForNextMessage(hasTimeout)
    \/ \E w \in DOMAIN waiters : WaitTimeout(w)
    \/ HandleExecute

Spec == Init /\ [][Next]_vars

\* The lifecycle alone.  No invocation action reads or writes isStopped,
\* socket, connectionId, ws, tasks or the callbacks, so the lifecycle of the
\* full program is exactly the lifecycle of this specification.
SpecConn == Init /\ [][Lifecycle]_vars

\* The lifecycle with the keep-alive interval
NextKeepAlive == Lifecycle \/ KeepAliveTick

SpecKeepAlive == Init /\ [][NextKeepAlive]_vars

\* The full program within a shorter lifecycle
InvScope ==
    /\ Len(tasks) <= InvMaxTasks
    /\ Len(ws) <= InvMaxSockets

NextInv ==
    \/ Start /\ InvScope'
    \/ Stop
    \/ \E t \in DOMAIN tasks, hasUrl \in BOOLEAN, cid \in 0..MaxConnId :
            NegotiateOk(t, hasUrl, cid) /\ InvScope'
    \/ \E t \in DOMAIN tasks : NegotiateFail(t)
    \/ \E t \in DOMAIN tasks : DelayElapsed(t) /\ InvScope'
    \/ \E s \in DOMAIN ws : SocketOpen(s)
    \/ \E s \in DOMAIN ws : SocketError(s)
    \/ \E s \in DOMAIN ws : SocketClose(s) /\ InvScope'
    \/ \E s \in DOMAIN ws : SocketHandshake(s)
    \/ Invocations

SpecInv == Init /\ [][NextInv]_vars

\* The same program with one start() call, and with the timers of invoke()
\* firing: a setTimeout callback that stays due is eventually run by the
\* event loop (clearTimeout disables it)
TimerScope == InvScope /\ nStarts <= 1

NextTimers ==
    \/ Start /\ TimerScope'
    \/ Stop
    \/ \E t \in DOMAIN tasks, hasUrl \in BOOLEAN, cid \in 0..MaxConnId :
            NegotiateOk(t, hasUrl, cid) /\ TimerScope'
    \/ \E t \in DOMAIN tasks : NegotiateFail(t)
    \/ \E t \in DOMAIN tasks : DelayElapsed(t) /\ TimerScope'
    \/ \E s \in DOMAIN ws : SocketOpen(s)
    \/ \E s \in DOMAIN ws : SocketError(s)
    \/ \E s \in DOMAIN ws : SocketClose(s) /\ TimerScope'
    \/ \E s \in DOMAIN ws : SocketHandshake(s)
    \/ Invocations

TimersFire ==
    \A c \in 1..MaxInvocations : WF_vars(c \in DOMAIN invs /\ Timeout(c))

SpecTimers == Init /\ [][NextTimers]_vars /\ TimersFire

\* ---------------------------------------------------------------------
\* Specifications of the listener registry and of message handling
\* ---------------------------------------------------------------------
\* a connection built with skipNegotiation and without reconnect delays
InitDirect == Init /\ skipNegotiation /\ reconnectDelays = <<>>

\* The registry with up to MaxListeners entries on one connection attempt,
\* the server sending Invocation frames
NextDispatch ==
    \/ Start /\ nStarts' <= 1
    \/ Stop
    \/ \E s \in DOMAIN ws : SocketOpen(s)
    \/ \E s \in DOMAIN ws : SocketClose(s)
    \/ \E name \in MethodNames, cb \in Callbacks : On(name, cb)
    \/ \E name \in MethodNames, cb \in Callbacks : Off(name, cb)
    \/ \E s \in DOMAIN ws, raw \in SingleFrames : SocketMessage(s, raw)

SpecDispatch == InitDirect /\ [][NextDispatch]_vars

\* Messages of several fragments on one connection attempt
NextMsg ==
    \/ Start /\ nStarts' <= 1
    \/ Stop
    \/ Invoke /\ Len(invs') <= 1
    \/ \E s \in DOMAIN ws : SocketOpen(s)
    \/ \E s \in DOMAIN ws : SocketClose(s)
    \/ \E name \in MethodNames :
            On(name, "cb3") /\ RegistrySize(listeners') <= FewListeners
    \/ \E s \in DOMAIN ws, raw \in RawMessages : SocketMessage(s, raw)

SpecMsg == InitDirect /\ [][NextMsg]_vars

\* The registry across the lifecycle of one start() call
NextReg ==
    \/ Start /\ TimerScope'
    \/ Stop
    \/ \E t \in DOMAIN tasks, hasUrl \in BOOLEAN, cid \in 0..MaxConnId :
            NegotiateOk(t, hasUrl, cid) /\ TimerScope'
    \/ \E t \in DOMAIN tasks : NegotiateFail(t)
    \/ \E t \in DOMAIN tasks : DelayElapsed(t) /\ TimerScope'
    \/ \E s \in DOMAIN ws : SocketOpen(s)
    \/ \E s \in DOMAIN ws : SocketError(s)
    \/ \E s \in DOMAIN ws : SocketClose(s) /\ TimerScope'
    \/ \E s \in DOMAIN ws : SocketHandshake(s)
    \/ \E name \in MethodNames, cb \in Callbacks :
            On(name, cb) /\ RegistrySize(listeners') <= FewListeners
    \/ \E name \in MethodNames, cb \in Callbacks : Off(name, cb)
    \/ \E s \in DOMAIN ws, raw \in OneFrame : SocketMessage(s, raw)

SpecReg == Init /\ [][NextReg]_vars

\* Messages with fragments that do not parse or have an unknown type, on one
\* connection attempt
NextDrop ==
    \/ Start /\ nStarts' <= 1
    \/ Stop
    \/ Invoke /\ Len(invs') <= 1
    \/ \E s \in DOMAIN ws : SocketOpen(s)
    \/ \E s \in DOMAIN ws : SocketClose(s)
    \/ \E name \in MethodNames :
            On(name, "cb1") /\ RegistrySize(listeners') <= FewListeners
    \/ \E s \in DOMAIN ws, raw \in DropMessages : SocketMessage(s, raw)

SpecDrop == InitDirect /\ [][NextDrop]_vars

\* connectInternal building its URLs, for every way to build the connection
\* and every negotiate result
InitUrl ==
    /\ InitHub
    /\ InitNode
    /\ reconnectDelays = <<>>
    /\ options \in Options
    /\ build = "ts"

NextUrl == \E neg \in NegotiateResults : ConnectUrl(neg)

SpecUrl == InitUrl /\ [][NextUrl]_vars

\* Deferred responses: the trigger registers requests, Respond nodes answer
\* them, the registry timers fire
NextRespond ==
    \/ OnExecuteDeferred
    \/ \E correlationId \in 1..MaxCorrelations : RegistryTimeout(correlationId)
    \/ \E correlationId \in 1..MaxCorrelations, sent \in BOOLEAN :
            RespondExecute(correlationId, sent)
    \/ \E e \in DOMAIN responders : RespondResume(e)

SpecRespond == InitDirect /\ [][NextRespond]_vars

\* ensureStarted while the trigger is active
NextStarter ==
    \/ EnsureStarted
    \/ \E k \in DOMAIN clientStarts : ClientStartResolves(k)
    \/ \E k \in DOMAIN clientStarts : ClientStartRejects(k)

SpecStarter == InitDirect /\ [][NextStarter]_vars

\* waitForNextMessage with either client
InitWait ==
    /\ InitHub
    /\ InitNode
    /\ skipNegotiation
    /\ reconnectDelays = <<>>
    /\ options = PlainOptions
    /\ build \in {"ts", "js"}

NextWait ==
    \/ \E hasTimeout \in BOOLEAN : WaitForNextMessage(hasTimeout)
    \/ \E w \in DOMAIN waiters : WaitTimeout(w)
    \/ HandleExecute

SpecWait == InitWait /\ [][NextWait]_vars

\* ---------------------------------------------------------------------
\* Vocabulary of the properties
\* ---------------------------------------------------------------------
Live(w) == w.readyState \in {"CONNECTING", "OPEN"}

LiveSockets == {s \in DOMAIN ws : Live(ws[s])}

Sleeping(t) == tasks[t].kind = "reconnect" /\ tasks[t].pc = "sleeping"

\* the caller's first start() resolved: a connection was established
Established == Len(tasks) >= 1 /\ tasks[1].pc = "resolved"

\* this step issued a negotiate request
NegotiateIssued ==
    \E t \in DOMAIN tasks' :
        /\ tasks'[t].pc = "negotiating"
        /\ t \in DOMAIN tasks => tasks[t].pc # "negotiating"

\* this step created a WebSocket
SocketCreated == Len(ws') > Len(ws)

\* the socket invoke() requires: set and OPEN
HasOpenSocket == socket # 0 /\ ws[socket].readyState = "OPEN"

\* the connection is Connected: not stopped, current socket open and its
\* handshake acknowledged
Connected ==
    /\ ~isStopped
    /\ HasOpenSocket
    /\ ws[socket].handshakes > 0

\* no socket has an error or close event outstanding
Quiescent == \A s \in DOMAIN ws : ws[s].readyState # "CLOSING"

\* this step sent a Ping frame on socket s
PingSent(s) ==
    /\ Len(ws'[s].sent) > Len(ws[s].sent)
    /\ ws'[s].sent[Len(ws'[s].sent)].type = "ping"

\* this step handled the close event of socket s
CloseHandled(s) == ws[s].readyState # "CLOSED" /\ ws'[s].readyState = "CLOSED"

TypeOK ==
    /\ isStopped \in BOOLEAN
    /\ socket \in 0..Len(ws)
    /\ \A s \in DOMAIN ws : ws[s].readyState \in ReadyStates
    /\ Len(ws) <= MaxSockets
    /\ Len(tasks) <= MaxTasks
    /\ Len(invs) <= MaxInvocations

\* ---------------------------------------------------------------------
\* Properties of the reconnection policy and of stop()
\* ---------------------------------------------------------------------
\* C1: once stop() has been called while a reconnect loop sleeps in one of
\* its delays, that loop makes no further attempt when the delay elapses:
\* it issues no negotiate request and creates no WebSocket.
C1_StopCancelsPendingDelay ==
    [][\A t \in DOMAIN tasks :
          (Established /\ userStopped /\ Sleeping(t)) => tasks'[t].pc \in {"sleeping", "aborted"}]_vars

\* C2: stop() is terminal: between stop() and the next start() no WebSocket
\* is created and onreconnected does not fire.
C2_StopIsTerminal ==
    [][(userStopped /\ userStopped') =>
          (~SocketCreated /\ ~Fired(events', "reconnected"))]_vars

\* C3: with only the one start() call of the caller, an unexpected close is
\* followed by at most N reconnect attempts, N the length of the delay
\* sequence (then onclose fires).
C3_ExactlyNAttempts ==
    (usage = "single" /\ Established) => seqAttempts <= Len(reconnectDelays)

\* C4: a reconnect attempt that completes its handshake fires onreconnected
\* exactly once: the handshake-completion callback of a reconnect socket,
\* which fires onreconnected on every run, runs once.
C4_ReconnectedOnce ==
    \A s \in DOMAIN ws : ws[s].isReconnect => ws[s].handshakes <= 1

\* C5: between the loss of a connection and the next onreconnected or
\* onclose, onreconnecting fires once.
C5_ReconnectingOnce ==
    (usage = "single" /\ Established) => reconnectingFired <= 1

\* C6: after a reconnect loop has used up the delay sequence and fired
\* onclose, no negotiate request is issued and no WebSocket is created until
\* start() is called again.
C6_ExhaustedIsPermanent ==
    [][(usage # "overlap" /\ exhausted /\ exhausted') =>
          (~NegotiateIssued /\ ~SocketCreated)]_vars

\* C7: at most one WebSocket of the connection is CONNECTING or OPEN.
C7_AtMostOneLiveSocket ==
    usage # "overlap" => Cardinality(LiveSockets) <= 1

\* ---------------------------------------------------------------------
\* Properties of the invocation tracker
\* ---------------------------------------------------------------------
\* C8: the step that handles a socket close event rejects every pending
\* invocation with the connection-closed error, leaves every other promise
\* as it was and leaves the pending map empty, so that no entry outlives
\* the transport.
C8_CloseRejectsAllPending ==
    [][\A s \in DOMAIN ws :
          CloseHandled(s) =>
              /\ DOMAIN pendingInvocations' = {}
              /\ \A c \in DOMAIN invs :
                    IF c \in Held(pendingInvocations)
                    THEN invs'[c].state = "closed"
                    ELSE invs'[c] = invs[c]]_vars

\* a close event was handled while an invocation was pending (stop() was
\* never called, so only a close event can have rejected it)
C8_Witness ==
    /\ usage = "single"
    /\ \E c \in DOMAIN invs :
          invs[c].state = "closed" /\ ws[invs[c].sock].readyState = "CLOSED"

\* every promise is settled at most once and its entry removed exactly once
SettledOnce ==
    \A c \in DOMAIN invs :
        /\ invs[c].settles = (IF invs[c].state = "pending" THEN 0 ELSE 1)
        /\ invs[c].removes = invs[c].settles
        /\ invs[c].timer = (invs[c].state = "pending")
        /\ (invs[c].state = "pending") = (c \in Held(pendingInvocations))

\* C9: every invocation promise is settled at most once and its pending
\* entry is removed exactly once; a Completion whose error field is set,
\* be it to the empty string, rejects, and one without error resolves.
C9_SettledOnceByOutcome ==
    /\ SettledOnce
    /\ \A c \in DOMAIN invs :
          /\ invs[c].completion \in {"message", "empty"} => invs[c].state = "rejected"
          /\ invs[c].completion = "absent" => invs[c].state = "resolved"

\* C10: invocation ids grow strictly in the order of allocation and never
\* exceed the counter, so they are pairwise distinct, across reconnects and
\* stop()/start() cycles too.
C10_IdsDistinct ==
    /\ \A c \in DOMAIN invs : invs[c].id \in 1..invocationId
    /\ \A c1, c2 \in DOMAIN invs : c1 < c2 => invs[c1].id < invs[c2].id

\* two ids were allocated on different sockets, with a stop() in between
C10_Witness ==
    /\ usage = "restarts"
    /\ \E c1, c2 \in DOMAIN invs : invs[c1].sock # invs[c2].sock

\* ---------------------------------------------------------------------
\* Properties of invoke(), its timeout and Completion matching
\* ---------------------------------------------------------------------
\* the Invocation frames sent on socket s that carry id
InvocationsSent(s, id) ==
    {i \in DOMAIN ws[s].sent :
        ws[s].sent[i].type = "invocation" /\ ws[s].sent[i].id = id}

\* C11: each accepted invoke() has sent exactly one Invocation frame with
\* its id, on the socket that was current at the call; no other socket ever
\* carries a frame with that id (nothing is re-sent after a timeout or a
\* reconnect) and every Invocation frame sent belongs to an accepted call.
C11_OneFramePerInvoke ==
    /\ \A c \in DOMAIN invs, s \in DOMAIN ws :
          Cardinality(InvocationsSent(s, invs[c].id)) = (IF s = invs[c].sock THEN 1 ELSE 0)
    /\ \A s \in DOMAIN ws : \A i \in DOMAIN ws[s].sent :
          ws[s].sent[i].type = "invocation" =>
              \E c \in DOMAIN invs : invs[c].id = ws[s].sent[i].id

\* an invocation timed out and the connection was re-established on a later
\* socket afterwards
C11_Witness ==
    \E c \in DOMAIN invs, s \in DOMAIN ws :
        /\ invs[c].state = "timeout"
        /\ s > invs[c].sock
        /\ ws[s].isReconnect
        /\ ws[s].handshakes > 0

\* C12: when the timer of a pending invocation fires, that invocation is
\* rejected with the timeout error and its entry removed; every other
\* promise and every other entry stays as it was and no frame is sent.  A
\* promise rejected by its timeout never changes again, whatever arrives.
C12_TimeoutRejectsAlone ==
    [][\A c \in DOMAIN invs :
          /\ (Timeout(c) /\ invs[c].state = "pending") =>
                /\ invs'[c].state = "timeout"
                /\ DOMAIN pendingInvocations' = DOMAIN pendingInvocations \ {invs[c].id}
                /\ \A i \in DOMAIN pendingInvocations' :
                      pendingInvocations'[i] = pendingInvocations[i]
                /\ \A d \in DOMAIN invs \ {c} : invs'[d] = invs[d]
                /\ ws' = ws
          /\ invs[c].state = "timeout" =>
                /\ invs'[c] = invs[c]
                /\ invs[c].id \notin DOMAIN pendingInvocations']_vars

\* one invocation has timed out while another one, sent on the same socket,
\* was resolved by its Completion
C12_Witness ==
    \E c, d \in DOMAIN invs :
        /\ invs[c].state = "timeout"
        /\ invs[d].state = "resolved"
        /\ invs[d].sock = invs[c].sock

\* C13: a Completion frame whose id is pending settles the promise
\* registered under that id, records nothing on any other promise and
\* removes that entry alone; a Completion whose id is not pending changes
\* nothing.
C13_CompletionMatchesById ==
    [][\A s \in DOMAIN ws, id \in 1..MaxInvocations, err \in ErrorValues :
          Completion(s, id, err) =>
              IF id \in DOMAIN pendingInvocations
              THEN LET c == pendingInvocations[id]
                   IN  /\ invs[c].id = id
                       /\ invs'[c].state \in {"resolved", "rejected"}
                       /\ invs'[c].completion = err
                       /\ \A d \in DOMAIN invs \ {c} : invs'[d] = invs[d]
                       /\ DOMAIN pendingInvocations' = DOMAIN pendingInvocations \ {id}
                       /\ \A i \in DOMAIN pendingInvocations' :
                             pendingInvocations'[i] = pendingInvocations[i]
              ELSE UNCHANGED <<connVars, invVars, keepAliveInterval>>]_vars

\* of two invocations pending together, the later one was completed first
C13_Witness ==
    \E c, d \in DOMAIN invs :
        /\ c < d
        /\ invs[c].state = "pending"
        /\ invs[d].completion # "none"
        /\ invs[d].sock = invs[c].sock

\* this step registered an invocation: id allocated, promise and timer
\* created, entry added or Invocation frame sent
InvokeTookEffect ==
    \/ invocationId' # invocationId
    \/ Len(invs') > Len(invs)
    \/ DOMAIN pendingInvocations' \ DOMAIN pendingInvocations # {}
    \/ \E s \in DOMAIN ws : \E i \in DOMAIN ws'[s].sent :
            i > Len(ws[s].sent) /\ ws'[s].sent[i].type = "invocation"

\* C14: without an open socket invoke() returns a rejected promise and
\* nothing else happens: no id is allocated, no promise, timer or entry is
\* created and no frame is sent; a rejected promise is returned only then,
\* and by a step that leaves the state of the connection unchanged.
C14_NotOpenRejects ==
    [][/\ (Invoke /\ ~HasOpenSocket) => Fired(events', "invokeRejected")
       /\ ~HasOpenSocket => ~InvokeTookEffect
       /\ Fired(events', "invokeRejected") =>
             /\ ~HasOpenSocket
             /\ UNCHANGED <<connVars, invVars, keepAliveInterval>>]_vars

\* invoke() was rejected while a socket was set but still connecting, with
\* an earlier invocation on record
C14_Witness ==
    /\ Fired(events, "invokeRejected")
    /\ socket # 0
    /\ ws[socket].readyState = "CONNECTING"
    /\ Len(invs) > 0

\* C15: with timers that fire, every promise returned by an accepted
\* invoke() is eventually settled.
C15_InvokeSettles ==
    \A c \in 1..MaxInvocations :
        (c \in DOMAIN invs) ~> (c \in DOMAIN invs /\ invs[c].state # "pending")

\* one promise was settled by its timer, another one by the loss of the
\* connection
C15_Witness ==
    \E c, d \in DOMAIN invs :
        /\ invs[c].state = "timeout"
        /\ invs[d].state = "closed"

\* ---------------------------------------------------------------------
\* Properties of connection establishment
\* ---------------------------------------------------------------------
\* no socket of the connection has delivered a `{}` fragment so far
NoSessionYet == \A s \in DOMAIN ws : ws[s].handshakes = 0

\* C16: during the caller's first start(), with no session established
\* before, an error event on the socket start() is waiting for rejects the
\* promise of start().
C16_ErrorRejectsFirstStart ==
    [][\A s \in DOMAIN ws :
          (/\ SocketError(s)
           /\ usage = "single"
           /\ NoSessionYet
           /\ tasks[ws[s].task].kind = "start"
           /\ Awaited(s)) => tasks'[ws[s].task].pc = "rejected"]_vars

\* C17: the promise of start() is not left pending once the socket of its
\* attempt has closed.
C17_StartSettlesOnClose ==
    \A t \in DOMAIN tasks :
        (/\ usage = "single"
         /\ connectionId = 0
         /\ tasks[t].kind = "start"
         /\ tasks[t].pc = "connecting") => ws[tasks[t].sock].readyState # "CLOSED"

\* this step ended the negotiate request of task t with a failure
NegotiateFailed(t) ==
    /\ tasks[t].pc = "negotiating"
    /\ tasks'[t].pc # "negotiating"
    /\ ~SocketCreated

\* C18: a negotiate request that fails inside start() rejects start(),
\* creates no WebSocket and issues no further request, and a rejected
\* start() never acts again.  One that fails inside a reconnect attempt
\* creates no WebSocket either and uses up that attempt: the loop is at
\* the head of its next iteration, where it sleeps the next delay, returns
\* if stop() was called, or gives up if the sequence is used up.
C18_NegotiateFailure ==
    [][\A t \in DOMAIN tasks :
          /\ (NegotiateFailed(t) /\ tasks[t].kind = "start") =>
                /\ tasks'[t].pc = "rejected"
                /\ ws' = ws /\ socket' = socket
                /\ ~NegotiateIssued
          /\ (tasks[t].kind = "start" /\ tasks[t].pc = "rejected") => tasks'[t] = tasks[t]
          /\ (NegotiateFailed(t) /\ tasks[t].kind = "reconnect") =>
                /\ ws' = ws /\ socket' = socket
                /\ tasks'[t].idx = tasks[t].idx + 1
                /\ tasks'[t].pc =
                      IF tasks[t].idx + 1 > Len(reconnectDelays) THEN "exhausted"
                      ELSE IF isStopped THEN "aborted" ELSE "sleeping"]_vars

\* a start() was rejected by its negotiate request (it never had a socket),
\* and a reconnect loop sleeps its second delay after the negotiate request
\* of its first attempt failed
C18_Witness ==
    /\ ~skipNegotiation
    /\ \E t \in DOMAIN tasks :
          tasks[t].kind = "start" /\ tasks[t].pc = "rejected" /\ tasks[t].sock = 0
    /\ \E t \in DOMAIN tasks :
          tasks[t].kind = "reconnect" /\ tasks[t].pc = "sleeping" /\ tasks[t].idx = 2

\* C19: a connect promise is resolved, the keep-alive interval is armed and
\* onreconnected is fired only with a `{}` fragment received on the socket
\* concerned; no other frame received reports the connection as connected.
C19_ConnectedOnlyAfterAck ==
    /\ \A t \in DOMAIN tasks :
          tasks[t].pc \in {"resolved", "returned"} =>
              tasks[t].sock # 0 /\ ws[tasks[t].sock].handshakes > 0
    /\ keepAliveInterval # 0 => ws[keepAliveInterval].handshakes > 0
    /\ Fired(events, "reconnected") =>
          \E s \in DOMAIN ws : ws[s].isReconnect /\ ws[s].handshakes > 0

\* a Completion was received and dispatched on a socket that has not yet
\* delivered `{}`: its connect promise is pending, no keep-alive is armed
C19_Witness ==
    \E c \in DOMAIN invs :
        /\ invs[c].completion # "none"
        /\ ws[invs[c].sock].handshakes = 0
        /\ Awaited(invs[c].sock)
        /\ keepAliveInterval = 0

\* C20: an Invocation frame is sent only on a socket that has already
\* delivered the `{}` acknowledgement of its handshake.
C20_NoInvocationBeforeAck ==
    [][\A s \in DOMAIN ws :
          (/\ usage = "single"
           /\ Established
           /\ Len(ws'[s].sent) > Len(ws[s].sent)
           /\ ws'[s].sent[Len(ws'[s].sent)].type = "invocation") =>
                ws[s].handshakes > 0]_vars

\* ---------------------------------------------------------------------
\* Properties of the keep-alive interval and of stop()
\* ---------------------------------------------------------------------
\* every start() call made so far has resolved
StartsResolved ==
    \A t \in DOMAIN tasks : tasks[t].kind = "start" => tasks[t].pc = "resolved"

\* C21: the keep-alive interval is armed if and only if the connection is
\* Connected (stated for the states where every start() has resolved, stop()
\* was not called since the last start() and no socket event is outstanding).
C21_KeepAliveIffConnected ==
    (usage # "overlap" /\ StartsResolved /\ ~userStopped /\ Quiescent) =>
        ((keepAliveInterval # 0) <=> Connected)

\* C22: the step that handles a close event leaves the keep-alive interval
\* cancelled, and a Ping frame is sent on a socket only by the interval that
\* the handshake of that socket armed.
C22_NoStalePing ==
    [][\A s \in DOMAIN ws :
          /\ CloseHandled(s) => keepAliveInterval' = 0
          /\ (usage # "overlap" /\ PingSent(s)) => keepAliveInterval >= s]_vars

\* C23: the step of stop() rejects every invocation that was pending with
\* the connection-closed error, changes no other promise and leaves the
\* pending map empty.
C23_StopRejectsAllPending ==
    [][Stop =>
          /\ DOMAIN pendingInvocations' = {}
          /\ \A c \in DOMAIN invs :
                IF c \in Held(pendingInvocations)
                THEN invs'[c].state = "closed"
                ELSE invs'[c] = invs[c]]_vars

\* stop() was called with an invocation pending: the promise is rejected
\* while the close event of its socket is still outstanding
C23_Witness ==
    /\ userStopped
    /\ \E c \in DOMAIN invs :
          invs[c].state = "closed" /\ ws[invs[c].sock].readyState = "CLOSING"

\* the state stop() leaves behind
StopHasNothingToDo ==
    /\ isStopped
    /\ socket = 0
    /\ keepAliveInterval = 0
    /\ DOMAIN pendingInvocations = {}

\* stop() leaves the connection in a state in which a stop() that follows
\* at once changes nothing
StopTwiceInARow ==
    [][Stop =>
          /\ StopHasNothingToDo'
          /\ StopHasNothingToDo =>
                (UNCHANGED <<connVars, invVars, keepAliveInterval>> /\ events' = <<>>)]_vars

\* C24: a stop() called after an earlier stop(), with no start() in
\* between, changes nothing: it closes no socket, settles no promise and
\* fires no callback.
C24_StopIdempotent ==
    [][(Stop /\ userStopped) =>
          (UNCHANGED <<connVars, invVars, keepAliveInterval>> /\ events' = <<>>)]_vars

\* C25: with an empty delay sequence, the step that handles a close event
\* on a connection that is not stopped fires onclose with an error and
\* nothing else, starts no reconnect loop, issues no negotiate request and
\* creates no WebSocket; no reconnect loop ever exists.
C25_EmptyDelaysCloseAtOnce ==
    [][Len(reconnectDelays) = 0 =>
          /\ \A s \in DOMAIN ws :
                (CloseHandled(s) /\ ~isStopped) =>
                    /\ events' = Fire("close", 1)
                    /\ tasks' = tasks
                    /\ ~SocketCreated /\ ~NegotiateIssued
          /\ \A t \in DOMAIN tasks' : tasks'[t].kind # "reconnect"
          /\ ~Fired(events', "reconnecting")]_vars

\* an established connection without reconnect delays lost its socket and
\* onclose was fired with an error
C25_Witness ==
    /\ Len(reconnectDelays) = 0
    /\ Established
    /\ usage = "single"
    /\ events = Fire("close", 1)

\* ---------------------------------------------------------------------
\* Properties of the listener registry and of message handling
\* ---------------------------------------------------------------------
\* two method names are equal up to letter-casing
SameIgnoringCase(a, b) ==
    /\ Len(a) = Len(b)
    /\ \A i \in DOMAIN a : Lower(a[i]) = Lower(b[i])

\* the callbacks registered for method name: the lists of all registry keys
\* equal to the name up to casing, in key order (there is one such key at most)
RegisteredFor(l, name) ==
    LET keys == {k \in DOMAIN l : SameIgnoringCase(k, name)}
    IN  IF keys = {} THEN <<>> ELSE l[CHOOSE k \in keys : TRUE]

\* this step handled a raw message
MessageHandled == received'.seq # received.seq

\* the n-th frame handled by the last message is an Invocation frame
IsInvocation(h) == Len(h.frame) = 1 /\ h.frame[1].kind = "json" /\ h.frame[1].type = 1

\* the callbacks called for a handled frame, in call order
Called(h) == [i \in DOMAIN h.calls |-> h.calls[i].cb]

\* on() adds one registration for the name, after those already made for it
\* in any casing, and keeps one list per name up to casing
OnRegisters ==
    \A name \in MethodNames, cb \in Callbacks :
        On(name, cb) =>
            /\ RegisteredFor(listeners', name) = Append(RegisteredFor(listeners, name), cb)
            /\ \A other \in MethodNames :
                  ~SameIgnoringCase(other, name) =>
                      RegisteredFor(listeners', other) = RegisteredFor(listeners, other)
            /\ \A k1, k2 \in DOMAIN listeners' : SameIgnoringCase(k1, k2) => k1 = k2

\* every Invocation frame of a message calls each callback registered for its
\* target, in any casing, once, in registration order, with its arguments
DispatchesToAll ==
    MessageHandled =>
        \A n \in DOMAIN received'.handled :
            LET h == received'.handled[n]
            IN  IsInvocation(h) =>
                    /\ Called(h) = RegisteredFor(listeners, h.frame[1].target)
                    /\ \A i \in DOMAIN h.calls : h.calls[i].args = h.frame[1].arguments

\* C26: on(M', cb) registers cb for M' in any casing, and every Invocation
\* frame calls each registration made for its target once, in registration
\* order, with the frame's arguments.
C26_DispatchByNameAnyCasing ==
    [][OnRegisters /\ DispatchesToAll]_vars

\* the same as long as no registered callback throws
NoThrower(l) == \A k \in DOMAIN l : \A i \in DOMAIN l[k] : ~Throws(l[k][i])

DispatchWithoutThrow ==
    [][OnRegisters /\ (NoThrower(listeners) => DispatchesToAll)]_vars

\* C27: when a callback throws during the dispatch of an Invocation frame,
\* the callbacks registered after it for that method are still called for
\* that frame.
C27_ThrowDoesNotStopDispatch ==
    [][MessageHandled =>
          \A n \in DOMAIN received'.handled :
              LET h == received'.handled[n]
                  handlers == RegisteredFor(listeners, h.frame[1].target)
              IN  (IsInvocation(h) /\ \E i \in DOMAIN h.calls : Throws(h.calls[i].cb)) =>
                      Len(h.calls) = Len(handlers)]_vars

\* C28: off(method, cb) removes every registration of cb for the method in
\* any casing, keeps the other registrations of the method in their order
\* and those of every other method, and changes nothing if there is none;
\* and a frame calls only callbacks that are registered for its target when
\* it arrives, so cb is not called for later frames.
C28_OffRemovesAll ==
    [][/\ \A name \in MethodNames, cb \in Callbacks :
             Off(name, cb) =>
                 /\ DOMAIN listeners' = DOMAIN listeners
                 /\ \A k \in DOMAIN listeners :
                       listeners'[k] = IF SameIgnoringCase(k, name)
                                       THEN SelectSeq(listeners[k], LAMBDA h : h # cb)
                                       ELSE listeners[k]
                 /\ (\A k \in DOMAIN listeners, i \in 1..MaxListeners :
                        (SameIgnoringCase(k, name) /\ i \in DOMAIN listeners[k]) =>
                            listeners[k][i] # cb) => listeners' = listeners
       /\ MessageHandled =>
             \A n \in DOMAIN received'.handled :
                 LET h == received'.handled[n]
                 IN  IsInvocation(h) =>
                         \A i \in DOMAIN h.calls :
                             \E j \in DOMAIN RegisteredFor(listeners, h.frame[1].target) :
                                 RegisteredFor(listeners, h.frame[1].target)[j] = h.calls[i].cb]_vars

\* off() has emptied the list of one method while another method keeps its
\* registrations, and a frame for the emptied method was handled without a call
C28_Witness ==
    /\ \E k \in DOMAIN listeners : listeners[k] = <<>>
    /\ \E k \in DOMAIN listeners : Len(listeners[k]) = 2
    /\ Len(received.handled) = 1
    /\ IsInvocation(received.handled[1])
    /\ RegisteredFor(listeners, received.handled[1].frame[1].target) = <<>>
    /\ received.handled[1].calls = <<>>

\* C29: every step that is not on() or off() leaves the registry as it is:
\* start(), stop(), socket events, reconnect attempts and messages.
C29_RegistryOnlyByOnOff ==
    [][(\A name \in MethodNames, cb \in Callbacks : ~On(name, cb) /\ ~Off(name, cb)) =>
          listeners' = listeners]_vars

\* after the first socket was lost, an Invocation frame received on the
\* socket of a reconnect attempt was dispatched to a registered callback
C29_Witness ==
    /\ received.sock # 0
    /\ ws[received.sock].isReconnect
    /\ ws[1].readyState = "CLOSED"
    /\ Len(received.handled) = 1
    /\ received.handled[1].calls # <<>>

\* positions where a non-empty fragment of raw starts
FragmentStarts(raw) ==
    {i \in DOMAIN raw : raw[i] # RS /\ (i = 1 \/ raw[i - 1] = RS)}

\* the non-empty fragment of raw that starts at i ends before the next separator
FragmentEnd(raw, i) ==
    CHOOSE j \in i..Len(raw) :
        /\ \A k \in i..j : raw[k] # RS
        /\ j = Len(raw) \/ raw[j + 1] = RS

\* C30: a message with k non-empty fragments has exactly k frames handled,
\* the n-th being the n-th fragment, and each `{}` among them runs the
\* handshake callback once; empty fragments are skipped.
C30_OneFramePerFragment ==
    [][MessageHandled =>
          LET raw == received'.raw
              starts == FragmentStarts(raw)
              handled == received'.handled
          IN  /\ Len(handled) = Cardinality(starts)
              /\ \A i \in starts :
                    handled[Cardinality({j \in starts : j <= i})].frame =
                        SubSeq(raw, i, FragmentEnd(raw, i))
              /\ ws'[received'.sock].handshakes = ws[received'.sock].handshakes +
                    Cardinality({i \in starts : SubSeq(raw, i, FragmentEnd(raw, i)) = <<AckText>>})]_vars

\* a message of two frames between separators was handled as two frames
C30_Witness ==
    /\ Len(received.raw) = 3
    /\ received.raw[2] = RS
    /\ Len(received.handled) = 2
    /\ received.handled[1].frame = <<AckText>>
    /\ received.handled[2].frame # <<AckText>>

\* the non-empty fragments of raw, in order
RECURSIVE FragmentsFrom(_, _)
FragmentsFrom(raw, i) ==
    IF i > Len(raw) THEN <<>>
    ELSE IF i \in FragmentStarts(raw)
         THEN <<SubSeq(raw, i, FragmentEnd(raw, i))>> \o FragmentsFrom(raw, i + 1)
         ELSE FragmentsFrom(raw, i + 1)

\* a fragment that is not `{}` and is not the JSON text of one frame of type
\* 1, 3 or 6
Dropped(msg) ==
    /\ msg # <<AckText>>
    /\ \/ Len(msg) # 1
       \/ msg[1].kind # "json"
       \/ msg[1].type \notin {1, 3, 6}

\* C31: a socket message has the effect its fragments have without those
\* that fail to parse or have a type other than 1, 3, 6: such a fragment
\* changes neither the connection state nor the pending invocations nor the
\* listeners, and the fragments around it are handled as if it were absent.
C31_BadFragmentDropped ==
    [][MessageHandled =>
          LET s == received'.sock
              all == FragmentsFrom(received'.raw, 1)
              kept == SelectSeq(all, LAMBDA m : ~Dropped(m))
              st == HandleFragments(MessageState, s, kept)
          IN  /\ Len(received'.handled) = Len(all)
              /\ ws' = st.ws
              /\ tasks' = st.tasks
              /\ keepAliveInterval' = st.keepAliveInterval
              /\ invs' = st.invs
              /\ pendingInvocations' = st.pendingInvocations
              /\ events' = st.events
              /\ UNCHANGED <<isStopped, socket, connectionId, invocationId, listeners>>
              /\ kept = <<>> => UNCHANGED <<connVars, invVars, keepAliveInterval, listeners>>]_vars

\* a message of a frame of unknown type followed by a Completion frame was
\* handled as two fragments, and the Completion resolved its invocation
C31_Witness ==
    /\ Len(received.raw) = 3
    /\ received.raw[1] = CloseText
    /\ received.raw[2] = RS
    /\ received.raw[3] = CompletionText(1, "absent")
    /\ Len(received.handled) = 2
    /\ \E c \in DOMAIN invs : invs[c].id = 1 /\ invs[c].state = "resolved"

\* C32: the negotiate response of a reconnect cycle decides the id that the
\* handshake of that cycle's socket passes to the onreconnected callbacks:
\* the connectionId of the response, and none when the response carried none.
C32_ReconnectedReportsNewId ==
    [][/\ \A t \in DOMAIN tasks, hasUrl \in BOOLEAN, cid \in 0..MaxConnId :
             (/\ tasks[t].kind = "reconnect"
              /\ NegotiateOk(t, hasUrl, cid)
              /\ cid = 0 \/ ~hasUrl) => connectionId' = cid
       /\ \A s \in DOMAIN ws :
             (ws[s].isReconnect /\ SocketHandshake(s)) =>
                 events' = Fire("reconnected", connectionId')]_vars

\* ---------------------------------------------------------------------
\* Properties of the WebSocket URL
\* ---------------------------------------------------------------------
\* the query parameters the claim puts on the socket URL, in order: id,
\* access_token, then the caller's WebSocket parameters
ExpectedParams ==
    LET neg == urls.neg
        redirect == neg.url # <<>>
        token == IF redirect /\ neg.accessToken # "" THEN neg.accessToken
                 ELSE options.accessToken
    IN  (IF ~redirect /\ neg.connectionId # "" THEN <<<<"id", neg.connectionId>>>> ELSE <<>>)
        \o (IF token # "" THEN <<<<"access_token", EncodeURIComponent(token)>>>> ELSE <<>>)
        \o [i \in DOMAIN options.webSocketQueryParams |->
               <<options.webSocketQueryParams[i][1],
                 EncodeURIComponent(options.webSocketQueryParams[i][2])>>]

\* the URL they are appended to: the negotiate url if there is one, else the
\* base URL, with http(s) rewritten to ws(s)
ExpectedRoot ==
    LET url == IF urls.neg.url # <<>> THEN urls.neg.url ELSE options.baseUrl
    IN  <<"ws">> \o SubSeq(url, 2, Len(url))

\* C33: the socket URL is the negotiate url if present, else the base URL,
\* followed by `id` when a connectionId was returned without url, then
\* `access_token` if a token is known (the negotiate token of a redirect
\* overriding the caller's), then the caller's WebSocket parameters, each
\* introduced by `?` if the URL has no query yet and by `&` otherwise; and
\* the negotiate URL does not depend on the WebSocket parameters.
C33_SocketUrl ==
    urls # NoUrls =>
        LET root == ExpectedRoot
            params == ExpectedParams
            at(k) == Len(root) + 4 * (k - 1)
        IN  /\ Len(urls.ws) = Len(root) + 4 * Len(params)
            /\ SubSeq(urls.ws, 1, Len(root)) = root
            /\ \A k \in DOMAIN params :
                  SubSeq(urls.ws, at(k) + 1, at(k) + 4) =
                      <<IF k = 1 /\ \A i \in DOMAIN root : root[i] # "?" THEN "?" ELSE "&",
                        params[k][1], "=", params[k][2]>>
            /\ urls.negotiate \in
                  {<<>>, NegotiateUrl([options EXCEPT !.webSocketQueryParams = <<>>])}
            /\ \A i \in DOMAIN urls.negotiate, k \in DOMAIN options.webSocketQueryParams :
                  urls.negotiate[i] # EncodeURIComponent(options.webSocketQueryParams[k][2])

\* a redirect with a token of its own, for a caller with a token and two
\* WebSocket parameters
C33_Witness ==
    /\ urls.neg.url # <<>>
    /\ urls.neg.accessToken # ""
    /\ options.accessToken # ""
    /\ Len(options.webSocketQueryParams) = 2
    /\ Len(urls.ws) > Len(urls.neg.url)

\* ---------------------------------------------------------------------
\* Properties of socket events that arrive late
\* ---------------------------------------------------------------------
\* C37: the close event of a socket that is not the current socket leaves
\* the keep-alive timer started for the current socket running, leaves the
\* invocations pending on the current socket pending, and starts no
\* reconnect sequence.
C37_StaleCloseIsIgnored ==
    [][\A s \in DOMAIN ws :
          (usage # "overlap" /\ CloseHandled(s) /\ socket # 0 /\ socket # s) =>
              /\ keepAliveInterval = socket => keepAliveInterval' = socket
              /\ \A c \in DOMAIN invs : invs[c].sock = socket => invs'[c] = invs[c]
              /\ Len(tasks') = Len(tasks)]_vars

\* C38: once the caller's start() has rejected, and until start() is called
\* again, the connection issues no negotiate request, creates no WebSocket,
\* starts no reconnect sequence and fires neither onreconnecting nor
\* onreconnected.
C38_NoAttemptAfterRejectedStart ==
    [][(usage = "single" /\ Len(tasks) >= 1 /\ tasks[1].pc = "rejected" /\ nStarts' = nStarts) =>
          /\ ~NegotiateIssued
          /\ ~SocketCreated
          /\ Len(tasks') = Len(tasks)
          /\ ~Fired(events', "reconnecting")
          /\ ~Fired(events', "reconnected")]_vars

\* executions of handleAutomaticReconnect that have not returned
ReconnectSequences ==
    {t \in DOMAIN tasks :
        /\ tasks[t].kind = "reconnect"
        /\ tasks[t].pc \in {"sleeping", "negotiating", "connecting"}}

\* those of them that can still take a step: asleep, negotiating, or
\* awaiting a socket that can still open, be acknowledged or close
Progressing ==
    {t \in ReconnectSequences :
        tasks[t].pc = "connecting" => ws[tasks[t].sock].readyState # "CLOSED"}

\* C39: at most one execution of handleAutomaticReconnect has not yet
\* returned: a socket close during a reconnect attempt does not start a
\* second execution next to the first.
C39_OneReconnectSequence ==
    usage = "single" => Cardinality(ReconnectSequences) <= 1

\* at most one of them can still take a step
OneSequenceSingleUse ==
    usage = "single" => Cardinality(Progressing) <= 1

\* C40: the handshake-completion callback of a socket (start the keep-alive
\* timer, fire onreconnected on a reconnect, resolve the connect promise)
\* runs at most once for the socket: a step that runs it is the first.
C40_HandshakeCompletesOnce ==
    [][\A s \in DOMAIN ws :
          ws'[s].handshakes # ws[s].handshakes => ws'[s].handshakes = 1]_vars

\* ---------------------------------------------------------------------
\* Properties of the deferred responses
\* ---------------------------------------------------------------------
\* C34: for one correlationId at most one CompletePrivateWorkflow response
\* is sent to the hub, however the executions of the Respond node with that
\* id and the 120 s registry timer interleave.
C34_OneResponsePerCorrelation ==
    \A correlationId \in DOMAIN hubResponses : hubResponses[correlationId] <= 1

\* Once the entry of an id is removed, no execution that starts afterwards
\* sends a response for it.
RemovedEntrySendsNothing ==
    [][\A correlationId \in DOMAIN hubResponses :
          correlationId \notin DOMAIN registry =>
              hubResponses'[correlationId] = hubResponses[correlationId]]_vars

\* ---------------------------------------------------------------------
\* Properties of ensureStarted
\* ---------------------------------------------------------------------
InFlight == {k \in DOMAIN clientStarts : clientStarts[k] = "inflight"}

Succeeded == \E k \in DOMAIN clientStarts : clientStarts[k] = "resolved"

EnsureStartedCalled == Len(callers') = Len(callers) + 1

C36_WaiterWokenByNextRequest ==
    \A w \in DOMAIN waiters :
        /\ waiters[w].settles <= 1
        /\ (waiters[w].state # "pending") = (waiters[w].settles = 1)
        /\ ~waiters[w].passed

\* The promise settles at most once, and only by its timer or by a request.
WaiterSettlesOnce ==
    \A w \in DOMAIN waiters :
        /\ waiters[w].settles <= 1
        /\ (waiters[w].state # "pending") = (waiters[w].settles = 1)
        /\ waiters[w].done = (waiters[w].settles = 1)

\* In the compiled JavaScript a lone waiter is woken by the next request.
LoneWaiterWokenJs ==
    [][(build = "js" /\ HandleExecute /\ Len(waiters) = 1
            /\ waiters[1].state = "pending")
        => waiters'[1].state = "resolved"]_vars

====
